---------------------------- MODULE Spec2Model ----------------------------
(***************************************************************************)
(* Virtual hub platform of pbio_virtual (platform/robot.py): the           *)
(* composition root Platform, the motor driver VirtualMotorDriver and the  *)
(* rotation sensor VirtualCounter, on top of two collaborators that live   *)
(* outside platform/robot.py: the physics model (physics.motors            *)
(* SimpleMotor) and the scheduler clock (drv.clock CountingClock).         *)
(*                                                                         *)
(* Representation.  Times are integers in microseconds: the driver's       *)
(* end_time, args[0] / 1000000 + 0.005 seconds, is kept as the number of   *)
(* microseconds args[0] + 5000.  Angles are integers in degrees and speeds *)
(* in degrees per second, the units of get_latest_output().                *)
(***************************************************************************)
EXTENDS Integers, Sequences, FiniteSets

\* ------------------------------------------------------------- bounds
\* Number of entries of the port table (indices 0 .. NumPorts-1, the i of
\* enumerate(self.PORTS.items())).
NumPorts == 2
\* on_poll is invoked at most MaxPolls times.
MaxPolls == 2

\* --------------------------------------------------- program constants
\* random.randint(-180, 179)
MinInitialAngle == -180
MaxInitialAngle == 179
\* end_time = args[0] / 1000000 + 0.005
LookaheadUs == 5000
\* abs_angle = angle % 360 ; abs_angle < 180 ; abs_angle - 360
FullTurn == 360
HalfTurn == 180
\* CountingClock(start=0, fuzz=0)
ClockStart == 0
\* CountingClock.tick(): one millisecond per tick
TickUs == 1000
\* SimpleMotor: steady-state speed per unit of duty (deg/s)
SpeedPerDuty == 10
UsPerSecond == 1000000

\* Python's None: an empty slot, an unset attribute, a call without result.
None == [none |-> TRUE]

Ports == 0 .. (NumPorts - 1)

\* IODeviceTypeId values: no device, the supported motor, and a device type
\* for which the physics package has no motor model.
TagNone == "NONE"
TagMotor == "TECHNIC_L_ANGULAR_MOTOR"
TagOther == "OTHER_DEVICE"
Tags == {TagNone, TagMotor, TagOther}
SupportedMotorTags == {TagMotor}

\* Port tables Platform.PORTS may hold.  Port 0 carries the motor, as in the
\* shipped table; port 1 is empty, a second motor, or an unsupported device.
Tables == {tb \in [Ports -> Tags] : tb[0] = TagMotor /\ \A p \in Ports : p > 1 => tb[p] = TagNone}

\* Inputs of the firmware calls.
TimeArgs == {0, 535000}
Duties == {-100, 0, 100}
\* Initial angles drawn from random.randint(-180, 179).
InitAngles == {a \in {-180, 0, 179} : MinInitialAngle <= a /\ a <= MaxInitialAngle}

\* Program state:
\*   PORTS               Platform.PORTS, port index -> device type
\*   construction_error  whether Platform.__init__ raised
\*   clock               self.clock[-1].microseconds
\*   sim_motor           self.sim_motor[i]: the model's state, or None
\*   initial_angle       self.counter[i].initial_angle (unset without motor)
\* History, for stating the properties:
\*   polls               number of on_poll calls so far
\*   angle_at_construction  angle each model reported when the counter was built
\*   sim_requests        simulate requests issued by the latest call
\*   ret                 what the latest call returned
VARIABLES PORTS, construction_error, clock, polls, sim_motor, initial_angle,
          angle_at_construction, sim_requests, ret

vars == <<PORTS, construction_error, clock, polls, sim_motor, initial_angle,
          angle_at_construction, sim_requests, ret>>

\* ------------------------------------------------------ physics model
\* SimMotor(t0, x0): state at time t0 with the given angle and speed.
SimMotor(t0, angle0, speed0) == [t |-> t0, angle |-> angle0, speed |-> speed0]

\* sim_motor.get_latest_output(): (angle, speed) as of the latest simulate.
get_latest_output(m) == [angle |-> m.angle, speed |-> m.speed]

\* sim_motor.simulate(end_time, u): advance the state to end_time under the
\* constant input u.  Nothing is integrated over an empty or negative
\* interval.
simulate(m, end_time, u) ==
    IF end_time <= m.t THEN m
    ELSE LET v == SpeedPerDuty * u
         IN [t |-> end_time,
             angle |-> m.angle + (v * (end_time - m.t)) \div UsPerSecond,
             speed |-> v]

\* CountingClock.tick()
tick(c) == c + TickUs

\* ------------------------------------------------ VirtualMotorDriver
\* Variant: five more milliseconds from wherever the model stands.
set_duty_cycle_requests_relative(m, t, d) ==
    IF m = None THEN << >>
    ELSE << [end_time |-> m.t + LookaheadUs, u |-> d] >>

\* Variant: simulate up to the call's time only, without the 5 milliseconds.
set_duty_cycle_requests_nolookahead(m, t, d) ==
    IF m = None THEN << >>
    ELSE << [end_time |-> t, u |-> d] >>

\* The simulate requests on_set_duty_cycle(args[0], args[1]) sends to the
\* model m it drives: none without a motor, else one, up to args[0] plus
\* 5 milliseconds with input args[1].
set_duty_cycle_requests(m, t, d) ==
    IF m = None THEN << >>
    ELSE << [end_time |-> t + LookaheadUs, u |-> d] >>

\* The model after it has served the requests rs in order.
RECURSIVE serve(_, _)
serve(m, rs) ==
    IF rs = << >> THEN m
    ELSE serve(simulate(m, Head(rs).end_time, Head(rs).u), Tail(rs))

\* Variant: coasting leaves the model alone.
coast_requests_idle(m, t) == << >>

\* on_coast(args[0]) actuates as on_set_duty_cycle(args[0], 0).
coast_requests(m, t) == set_duty_cycle_requests(m, t, 0)

\* --------------------------------------------------- VirtualCounter
\* VirtualCounter.__init__: the starting angle, when there is a motor.
counter_initial_angle(m) ==
    IF m = None THEN None ELSE get_latest_output(m).angle

\* Variant: the angle is not reduced to one turn.
wrap_unreduced(angle) ==
    IF angle < HalfTurn THEN angle ELSE angle - FullTurn

\* Variant: half a turn itself is kept positive.
wrap_inclusive(angle) ==
    LET abs_angle == angle % FullTurn
    IN IF abs_angle <= HalfTurn THEN abs_angle ELSE abs_angle - FullTurn

\* abs_count's reduction: angle % 360, minus 360 from 180 on.
wrap(angle) ==
    LET abs_angle == angle % FullTurn
    IN IF abs_angle < HalfTurn THEN abs_angle ELSE abs_angle - FullTurn

abs_count(p) ==
    IF sim_motor[p] = None THEN 0
    ELSE wrap(get_latest_output(sim_motor[p]).angle)

\* Variant: the difference is brought back into one turn.
count_wrapped(p) ==
    IF sim_motor[p] = None THEN 0
    ELSE wrap(get_latest_output(sim_motor[p]).angle - initial_angle[p])

count(p) ==
    IF sim_motor[p] = None THEN 0
    ELSE get_latest_output(sim_motor[p]).angle - initial_angle[p]

rate(p) ==
    IF sim_motor[p] = None THEN 0
    ELSE get_latest_output(sim_motor[p]).speed

\* ----------------------------------------------------------- Platform
\* Variant: every port is given a motor.
HasMotor_any(type_id) == TRUE

\* if type_id != IODeviceTypeId.NONE: the port gets a SimMotor.
HasMotor(type_id) == type_id # TagNone

\* Platform.__init__ has no raise and no check of the device type.
construction_raises(table) == FALSE

\* Platform.__init__: one slot per port, a SimMotor for every type other
\* than NONE, at the clock's time, a random angle and zero speed; a counter
\* and a driver per port on that slot.
Init ==
    /\ PORTS \in Tables
    /\ construction_error = construction_raises(PORTS)
    /\ clock = ClockStart
    /\ polls = 0
    /\ sim_motor \in [Ports -> {SimMotor(ClockStart, a, 0) : a \in InitAngles} \cup {None}]
    /\ \A p \in Ports : (sim_motor[p] # None) <=> HasMotor(PORTS[p])
    /\ initial_angle = [p \in Ports |-> counter_initial_angle(sim_motor[p])]
    /\ angle_at_construction = [p \in Ports |-> IF sim_motor[p] = None THEN None ELSE sim_motor[p].angle]
    /\ sim_requests = << >>
    /\ ret = None

\* Variant: all drivers hold one and the same model, so a call on one port
\* drives every motor.
on_set_duty_cycle_shared(p, t, d) ==
    LET rs == set_duty_cycle_requests(sim_motor[p], t, d)
    IN /\ sim_motor' = [q \in Ports |-> IF sim_motor[q] = None THEN None ELSE serve(sim_motor[q], rs)]
       /\ sim_requests' = [i \in 1 .. Len(rs) |-> [port |-> p, end_time |-> rs[i].end_time, u |-> rs[i].u]]
       /\ ret' = None
       /\ UNCHANGED <<PORTS, construction_error, clock, polls, initial_angle, angle_at_construction>>

\* A firmware call to motor_driver[p].on_set_duty_cycle(t, d).
on_set_duty_cycle(p, t, d) ==
    LET rs == set_duty_cycle_requests(sim_motor[p], t, d)
    IN /\ sim_motor' = [sim_motor EXCEPT ![p] = serve(@, rs)]
       /\ sim_requests' = [i \in 1 .. Len(rs) |-> [port |-> p, end_time |-> rs[i].end_time, u |-> rs[i].u]]
       /\ ret' = None
       /\ UNCHANGED <<PORTS, construction_error, clock, polls, initial_angle, angle_at_construction>>

\* A firmware call to motor_driver[p].on_coast(t).
on_coast(p, t) ==
    LET rs == coast_requests(sim_motor[p], t)
    IN /\ sim_motor' = [sim_motor EXCEPT ![p] = serve(@, rs)]
       /\ sim_requests' = [i \in 1 .. Len(rs) |-> [port |-> p, end_time |-> rs[i].end_time, u |-> rs[i].u]]
       /\ ret' = None
       /\ UNCHANGED <<PORTS, construction_error, clock, polls, initial_angle, angle_at_construction>>

\* Variant: a poll pushes the clock two ticks.
on_poll_twice ==
    /\ polls < MaxPolls
    /\ clock' = tick(tick(clock))
    /\ polls' = polls + 1
    /\ sim_requests' = << >>
    /\ ret' = None
    /\ UNCHANGED <<PORTS, construction_error, sim_motor, initial_angle, angle_at_construction>>

\* Platform.on_poll(): the clock goes one tick forward.
on_poll ==
    /\ polls < MaxPolls
    /\ clock' = tick(clock)
    /\ polls' = polls + 1
    /\ sim_requests' = << >>
    /\ ret' = None
    /\ UNCHANGED <<PORTS, construction_error, sim_motor, initial_angle, angle_at_construction>>

\* The firmware reads counter[p].abs_count / count / rate.
read_abs_count(p) ==
    /\ ret' = [op |-> "abs_count", port |-> p, value |-> abs_count(p)]
    /\ sim_requests' = << >>
    /\ UNCHANGED <<PORTS, construction_error, clock, polls, sim_motor, initial_angle, angle_at_construction>>

read_count(p) ==
    /\ ret' = [op |-> "count", port |-> p, value |-> count(p)]
    /\ sim_requests' = << >>
    /\ UNCHANGED <<PORTS, construction_error, clock, polls, sim_motor, initial_angle, angle_at_construction>>

read_rate(p) ==
    /\ ret' = [op |-> "rate", port |-> p, value |-> rate(p)]
    /\ sim_requests' = << >>
    /\ UNCHANGED <<PORTS, construction_error, clock, polls, sim_motor, initial_angle, angle_at_construction>>

Next ==
    \/ \E p \in Ports, t \in TimeArgs, d \in Duties : on_set_duty_cycle(p, t, d)
    \/ \E p \in Ports, t \in TimeArgs : on_coast(p, t)
    \/ on_poll
    \/ \E p \in Ports : read_abs_count(p)
    \/ \E p \in Ports : read_count(p)
    \/ \E p \in Ports : read_rate(p)

Spec == Init /\ [][Next]_vars


\* ======================================================== properties
MotorPorts == {p \in Ports : sim_motor[p] # None}
NonePorts == {p \in Ports : PORTS[p] = TagNone}
IsRead(r) == r # None
LatestAngle(p) == get_latest_output(sim_motor[p]).angle

\* ---------------------------------------------------------------- C1
\* C1: on a port of type NONE, abs_count, count and rate are 0 in every
\* reachable state and every read of them returned 0; on_set_duty_cycle and
\* on_coast on it send nothing to any model and change nothing of the
\* platform (ports, clock, models, calibration angles).
C1_NoneReadsZero ==
    /\ \A p \in NonePorts :
          /\ sim_motor[p] = None
          /\ abs_count(p) = 0 /\ count(p) = 0 /\ rate(p) = 0
    /\ IsRead(ret) => (ret.port \in NonePorts => ret.value = 0)

C1_NoneActuationNoOp ==
    \A p \in NonePorts :
       ((\E t \in TimeArgs, d \in Duties : on_set_duty_cycle(p, t, d))
          \/ (\E t \in TimeArgs : on_coast(p, t)))
       => /\ sim_requests' = << >>
          /\ UNCHANGED <<PORTS, construction_error, clock, polls, sim_motor,
                         initial_angle, angle_at_construction>>

\* C1: both parts, over every behaviour: NONE ports always read 0 and their
\* actuation is a no-op.
C1_NonePort == [] C1_NoneReadsZero /\ [][C1_NoneActuationNoOp]_vars

\* A read of a NONE port after polls and after the other port's motor moved.
C1_Witness ==
    /\ IsRead(ret) /\ ret.port \in NonePorts /\ ret.op = "count"
    /\ polls > 0
    /\ \E q \in MotorPorts : sim_motor[q].t > ClockStart /\ sim_motor[q].speed # 0

\* ---------------------------------------------------------------- C2
\* C2 as stated: abs_count is greater than -180 and at most 180, and
\* congruent to the simulated angle modulo 360.
C2_AsStated ==
    \A p \in MotorPorts :
       /\ -HalfTurn < abs_count(p) /\ abs_count(p) <= HalfTurn
       /\ (abs_count(p) - LatestAngle(p)) % FullTurn = 0

\* C2 amended: abs_count is at least -180 and less than 180, and congruent
\* to the simulated angle modulo 360.
C2_AbsCountRange ==
    \A p \in MotorPorts :
       /\ -HalfTurn <= abs_count(p) /\ abs_count(p) < HalfTurn
       /\ (abs_count(p) - LatestAngle(p)) % FullTurn = 0

\* A multi-turn negative angle whose abs_count was read.
C2_Witness ==
    /\ IsRead(ret) /\ ret.op = "abs_count" /\ ret.port \in MotorPorts
    /\ LatestAngle(ret.port) < -FullTurn
    /\ ret.value # LatestAngle(ret.port)

\* ---------------------------------------------------------------- C3
\* C3: when the angle reduced modulo 360 is exactly 180, abs_count is -180;
\* a reduced value below 180 is returned as is, one from 180 on minus 360.
C3_Boundary ==
    \A p \in MotorPorts :
       LET reduced == LatestAngle(p) % FullTurn
       IN /\ reduced = HalfTurn => abs_count(p) = -HalfTurn
          /\ reduced < HalfTurn => abs_count(p) = reduced
          /\ reduced >= HalfTurn => abs_count(p) = reduced - FullTurn

\* The motor was driven to an angle of 180 modulo 360 (540, -540, 180) and
\* abs_count was read there.
C3_Witness ==
    /\ IsRead(ret) /\ ret.op = "abs_count" /\ ret.port \in MotorPorts
    /\ LatestAngle(ret.port) % FullTurn = HalfTurn
    /\ LatestAngle(ret.port) # angle_at_construction[ret.port]
    /\ ret.value = -HalfTurn

\* ---------------------------------------------------------------- C4
\* C4: count is the latest angle minus the angle the model reported when the
\* counter was constructed, without reduction; the stored calibration angle
\* stays that angle; count is 0 as long as the model was never advanced.
C4_Count ==
    \A p \in MotorPorts :
       /\ initial_angle[p] = angle_at_construction[p]
       /\ count(p) = LatestAngle(p) - angle_at_construction[p]
       /\ sim_motor[p].t = ClockStart => count(p) = 0
       /\ (IsRead(ret) /\ ret.op = "count" /\ ret.port = p) => ret.value = count(p)

\* A count of more than one turn was read.
C4_Witness ==
    /\ IsRead(ret) /\ ret.op = "count" /\ ret.port \in MotorPorts
    /\ ret.value > FullTurn

\* ---------------------------------------------------------------- C5
\* C5: after N polls the clock shows N ticks past its start, whatever else
\* was called in between.
C5_Clock == clock = ClockStart + polls * TickUs

\* All polls done, with an actuation as the latest call.
C5_Witness ==
    /\ polls = MaxPolls
    /\ sim_requests # << >>
    /\ clock > ClockStart

\* ---------------------------------------------------------------- C6
\* C6: a port table holding a device type that is neither NONE nor a
\* supported motor type makes construction fail.
C6_UnsupportedTagAborts ==
    (\E p \in Ports : PORTS[p] \notin ({TagNone} \cup SupportedMotorTags))
       => construction_error

\* ---------------------------------------------------------------- C7
\* C7: an on_set_duty_cycle(t, d) that follows at once on an actuation of
\* the same port that asked for the same end time and input leaves the
\* model, and so abs_count, count and rate, as they were.
C7_SecondCallSame ==
    \A p \in MotorPorts, t \in TimeArgs, d \in Duties :
       (/\ sim_requests = << [port |-> p, end_time |-> t + LookaheadUs, u |-> d] >>
        /\ on_set_duty_cycle(p, t, d))
       => /\ sim_motor' = sim_motor
          /\ abs_count(p)' = abs_count(p)
          /\ count(p)' = count(p)
          /\ rate(p)' = rate(p)

\* C7: every step satisfies the repeated-call property above.
C7_Idempotent == [][C7_SecondCallSame]_vars

\* A motor just driven with a non-zero duty, standing at the requested time.
C7_Witness ==
    /\ Len(sim_requests) = 1
    /\ sim_requests[1].u # 0
    /\ sim_motor[sim_requests[1].port].t = sim_requests[1].end_time
    /\ sim_motor[sim_requests[1].port].speed # 0
    /\ polls > 0

\* ---------------------------------------------------------------- C8
\* C8: on_set_duty_cycle(t, d) on a port with a motor sends that port's
\* model exactly one simulate request, to t + 5000 microseconds with input
\* d; the readings right after the call are the model's output after that
\* request, which is as of the end time whenever the model was not already
\* past it, and never as of an earlier time.
C8_OneRequest ==
    \A p \in MotorPorts, t \in TimeArgs, d \in Duties :
       on_set_duty_cycle(p, t, d)
       => LET after == simulate(sim_motor[p], t + LookaheadUs, d)
          IN /\ sim_requests' = << [port |-> p, end_time |-> t + LookaheadUs, u |-> d] >>
             /\ sim_motor'[p] = after
             /\ sim_motor'[p].t >= t + LookaheadUs
             /\ sim_motor[p].t <= t + LookaheadUs => sim_motor'[p].t = t + LookaheadUs
             /\ abs_count(p)' = wrap(get_latest_output(after).angle)
             /\ count(p)' = get_latest_output(after).angle - initial_angle[p]
             /\ rate(p)' = get_latest_output(after).speed

\* C8: every on_set_duty_cycle step on a motor port is one request to
\* t + 5000 us with input d, and the readings follow it.
C8_Lookahead == [][C8_OneRequest]_vars

\* Right after a call that moved the motor: the model stands at the end
\* time and shows the commanded speed.
C8_Witness ==
    /\ Len(sim_requests) = 1
    /\ sim_motor[sim_requests[1].port].t = sim_requests[1].end_time
    /\ sim_requests[1].end_time > LookaheadUs
    /\ rate(sim_requests[1].port) = SpeedPerDuty * sim_requests[1].u
    /\ count(sim_requests[1].port) # 0

\* ---------------------------------------------------------------- C9
\* C9: on any port and from any state, on_coast(t) leads to exactly the
\* state on_set_duty_cycle(t, 0) leads to.
C9_CoastStep ==
    \A p \in Ports, t \in TimeArgs : on_coast(p, t) <=> on_set_duty_cycle(p, t, 0)

\* C9: every step is an on_coast(t) step exactly when it is an
\* on_set_duty_cycle(t, 0) step.
C9_CoastIsZeroDuty == [][C9_CoastStep]_vars

\* A running motor was stopped by a zero input with the 5 ms lookahead.
C9_Witness ==
    /\ Len(sim_requests) = 1
    /\ sim_requests[1].u = 0
    /\ sim_motor[sim_requests[1].port].t = sim_requests[1].end_time
    /\ sim_motor[sim_requests[1].port].speed = 0
    /\ count(sim_requests[1].port) # 0

\* --------------------------------------------------------------- C10
\* C10: a step that is not an on_set_duty_cycle or on_coast of port p leaves
\* p's model, its calibration angle and its three readings unchanged.
C10_FrameStep ==
    \A p \in Ports :
       \/ \E t \in TimeArgs, d \in Duties : on_set_duty_cycle(p, t, d)
       \/ \E t \in TimeArgs : on_coast(p, t)
       \/ /\ sim_motor'[p] = sim_motor[p]
          /\ initial_angle'[p] = initial_angle[p]
          /\ abs_count(p)' = abs_count(p)
          /\ count(p)' = count(p)
          /\ rate(p)' = rate(p)

\* C10: every step leaves untouched the model and readings of each port it
\* does not actuate.
C10_Frame == [][C10_FrameStep]_vars

\* Two motors: one was driven, the other still stands as constructed after
\* polls, and was just read.
C10_Witness ==
    /\ IsRead(ret) /\ ret.port \in MotorPorts
    /\ sim_motor[ret.port].t = ClockStart
    /\ polls = MaxPolls
    /\ \E q \in MotorPorts : q # ret.port /\ count(q) # 0

=============================================================================
